---- MODULE Spec2Model ----
(***************************************************************************)
(* ProductPro (src/src/ProductPro.tsx): one React component that uploads   *)
(* a product image, draws four filtered canvases, fills caption templates, *)
(* upscales and exports the results, and counts generations per calendar   *)
(* day in localStorage.                                                    *)
(*                                                                         *)
(* An async handler runs synchronously up to its first await; the state    *)
(* updates of one synchronous stretch are batched into one render, so each *)
(* stretch is one action.  `task` holds the position and the captured      *)
(* closure values of the handler that is waiting on an await.              *)
(*                                                                         *)
(* localStorage belongs to the origin, not to the component: a second      *)
(* mounted instance of the same page (another tab) shares it.  The second  *)
(* instance is modelled by the part of its state that reaches the shared   *)
(* store: its own opsUsed and its runGenerate.                             *)
(*                                                                         *)
(* An encoded image is the record of what was drawn into its canvas: the   *)
(* pixel size, the preset filter, the poster blocks and the watermark.     *)
(* The canvas has no size limit here, and style and customPrompt, which    *)
(* only reach the caption texts, are left out of the options.              *)
(*                                                                         *)
(* Spec is a session next to the second instance across midnight, SpecPage *)
(* one instance within one day, SpecGen generation and upscaling for every *)
(* choice of options, SpecOptions generation while every option is edited. *)
(***************************************************************************)
EXTENDS Integers, Sequences, FiniteSets, TLC

VARIABLES
    day,          \* the local calendar day read by new Date()
    localStorage, \* the stored items: day key -> counter, for the keys present
    peerOpsUsed,  \* opsUsed of the second mounted instance
    img,          \* useState img: NULL or the uploaded data URL
    busy,         \* useState busy
    error,        \* useState error: NULL or the message shown
    options,      \* useState options
    variants,     \* useState variants: sequence of encoded images
    copies,       \* useState copies
    opsUsed,      \* useState opsUsed
    task,         \* the handler suspended at an await, with its closure
    reads,        \* files whose FileReader has not answered yet
    downloads,    \* downloads triggered since the last action-row click
    warned,       \* console.warn("ZIP failed, ...") since that click
    unhandled,    \* a promise rejection left a handler uncaught
    ups           \* how many upscales the images in variants went through

vars == <<day, localStorage, peerOpsUsed, img, busy, error, options, variants,
          copies, opsUsed, task, reads, downloads, warned, unhandled, ups>>

NULL == "null"

\* ---------------------------------------------------------------- bounds
MaxDay == 2       \* calendar days the run spans
MaxUpscales == 2  \* upscales applied to one set of variants
MaxFresh == 2     \* generations explored from an empty day key
NearCap == 1      \* how far below the limit a stored count starts

\* ------------------------------------------------------- program constants
DailyLimit == 30

Modes == {"photo", "poster"}
Ratios == {"1:1", "4:5", "16:9", "9:16"}
Qualities == {"standard", "high", "ultra"}
GenOptions == [mode : Modes, ratio : Ratios, quality : Qualities, watermark : BOOLEAN]

Files == {"photo.png"}

ErrNotImage == "Unggah file gambar (PNG/JPG)"
ErrNoImage == "Harap unggah foto produk dulu."
ErrQuota == "Batas 30 operasi/hari tercapai."
ErrLoadImage == "Gagal memuat gambar."

Idle == [kind |-> "idle"]

\* the data URL FileReader produces for file f
dataUrl(f) == "data:image/png;base64," \o f

\* ------------------------------------------------------------ rate limit
\* keyForToday: the key is a function of the current local date only.
keyForToday == day

\* getOpsUsed: Number(localStorage.getItem(key) || "0")
getOpsUsed ==
    IF keyForToday \in DOMAIN localStorage THEN localStorage[keyForToday] ELSE 0

\* localStorage.setItem(key, String(v))
setItem(key, v) ==
    [k \in DOMAIN localStorage \cup {key} |-> IF k = key THEN v ELSE localStorage[k]]

\* incOpsUsed(n): the value written to the store and to opsUsed
incOpsUsedValue(n) == getOpsUsed + n

remaining == DailyLimit - opsUsed

\* the counts the model explores: the first MaxFresh of a day, and from
\* NearCap below the limit upwards
InScope == getOpsUsed < MaxFresh \/ getOpsUsed >= DailyLimit - NearCap

\* ------------------------------------------------------- demo generators
ratios ==
    [r \in Ratios |->
        CASE r = "1:1" -> <<1024, 1024>>
          [] r = "4:5" -> <<1024, 1280>>
          [] r = "16:9" -> <<1280, 720>>
          [] r = "9:16" -> <<1080, 1920>>]

\* qualityScale with the multipliers of high and ultra exchanged
qualityScaleSwapped(q) == IF q = "ultra" THEN 13 ELSE IF q = "high" THEN 16 ELSE 10

\* qualityScale in tenths: 1.6, 1.3, 1
qualityScale10(q) == IF q = "ultra" THEN 16 ELSE IF q = "high" THEN 13 ELSE 10

\* Math.round(x / 10) for x >= 0: floor(x / 10 + 0.5)
MathRound10(x) == (x + 5) \div 10

\* buildPresetFilters without the list.reverse() of poster mode
buildPresetFiltersNoReverse(opts) == <<"clean", "moody", "pop", "matte">>

buildPresetFilters(opts) ==
    LET list == <<"clean", "moody", "pop", "matte">>
    IN  IF opts.mode = "poster"
        THEN [i \in 1..Len(list) |-> list[Len(list) + 1 - i]]
        ELSE list

\* a canvas whose watermark block runs whatever opts.watermark says
drawVariantAlwaysMarked(opts, i) ==
    LET presets == buildPresetFilters(opts)
    IN  [w |-> MathRound10(ratios[opts.ratio][1] * qualityScale10(opts.quality)),
         h |-> MathRound10(ratios[opts.ratio][2] * qualityScale10(opts.quality)),
         filter |-> presets[(i % Len(presets)) + 1],
         poster |-> (opts.mode = "poster"),
         watermark |-> TRUE]

\* One canvas of generateVariants; i is the loop index 0..3.
drawVariant(opts, i) ==
    LET w == ratios[opts.ratio][1]
        h == ratios[opts.ratio][2]
        presets == buildPresetFilters(opts)
    IN  [w |-> MathRound10(w * qualityScale10(opts.quality)),
         h |-> MathRound10(h * qualityScale10(opts.quality)),
         filter |-> presets[(i % Len(presets)) + 1],
         poster |-> (opts.mode = "poster"),
         watermark |-> opts.watermark]

\* generateVariants after loadImage(src) resolved: out[i+1] is canvas i.
generateVariants(opts) == [p \in 1..4 |-> drawVariant(opts, p - 1)]

\* buildCopies: each template with the option fields it substitutes.
buildCopies(opts) ==
    << [caption |-> <<"upgrade", opts.mode>>, ad |-> <<"kenalkan", opts.mode>>],
       [caption |-> <<"scroll", opts.mode>>, ad |-> <<"ctr", opts.mode, opts.quality>>],
       [caption |-> <<"aspect", opts.ratio>>, ad |-> <<"umkm">>],
       [caption |-> <<"feed", opts.mode>>, ad |-> <<"zip">>] >>

\* upscale2x with c.height left at img.height
upscale2xWidthOnly(v) == [v EXCEPT !.w = v.w * 2]

\* upscale2x after loadImage(dataUrl) resolved
upscale2x(v) == [v EXCEPT !.w = v.w * 2, !.h = v.h * 2]

\* ------------------------------------------------------------------ Init
Init ==
    /\ day = 1
    /\ localStorage \in
         {<<>>} \cup {[d \in {1} |-> c] : c \in (DailyLimit - NearCap)..DailyLimit}
    /\ opsUsed = getOpsUsed
    /\ peerOpsUsed = getOpsUsed
    /\ img = NULL
    /\ busy = FALSE
    /\ error = NULL
    /\ options = [mode |-> "photo", ratio |-> "1:1", quality |-> "standard",
                  watermark |-> TRUE]
    /\ variants = <<>>
    /\ copies = <<>>
    /\ task = Idle
    /\ reads = {}
    /\ downloads = <<>>
    /\ warned = FALSE
    /\ unhandled = FALSE
    /\ ups = 0

\* --------------------------------------------------------------- options
setOptions(o) ==
    /\ options' = o
    /\ UNCHANGED <<day, localStorage, peerOpsUsed, img, busy, error, variants,
                   copies, opsUsed, task, reads, downloads, warned, unhandled, ups>>

SetMode == \E m \in Modes : setOptions([options EXCEPT !.mode = m])
SetRatio == \E r \in Ratios : setOptions([options EXCEPT !.ratio = r])
SetQuality == \E q \in Qualities : setOptions([options EXCEPT !.quality = q])
SetWatermark == \E b \in BOOLEAN : setOptions([options EXCEPT !.watermark = b])

\* ---------------------------------------------------------------- upload
\* onUpload up to `await fileToDataUrl(file)`
onUpload ==
    \E isImage \in BOOLEAN, f \in Files :
        /\ IF ~isImage
           THEN /\ error' = ErrNotImage
                /\ reads' = reads
           ELSE /\ f \notin reads
                /\ error' = NULL
                /\ reads' = reads \cup {f}
        /\ UNCHANGED <<day, localStorage, peerOpsUsed, img, busy, options, variants,
                       copies, opsUsed, task, downloads, warned, unhandled, ups>>

\* fr.onload: the promise resolves and onUpload continues with setImg
frOnload ==
    \E f \in reads :
        /\ reads' = reads \ {f}
        /\ img' = dataUrl(f)
        /\ UNCHANGED <<day, localStorage, peerOpsUsed, busy, error, options, variants,
                       copies, opsUsed, task, downloads, warned, unhandled, ups>>

\* fr.onerror: the promise rejects; onUpload has no try/catch around the await
frOnerror ==
    \E f \in reads :
        /\ reads' = reads \ {f}
        /\ unhandled' = TRUE
        /\ UNCHANGED <<day, localStorage, peerOpsUsed, img, busy, error, options,
                       variants, copies, opsUsed, task, downloads, warned, ups>>

\* the Hapus button
removeImage ==
    /\ img # NULL
    /\ img' = NULL
    /\ UNCHANGED <<day, localStorage, peerOpsUsed, busy, error, options, variants,
                   copies, opsUsed, task, reads, downloads, warned, unhandled, ups>>

\* -------------------------------------------------------------- generate
\* the two guard clauses of runGenerate: the message thrown, or NULL
generateGuard ==
    IF img = NULL THEN ErrNoImage
    ELSE IF remaining <= 0 THEN ErrQuota
    ELSE NULL

\* runGenerate up to `await loadImage(src)` inside generateVariants
runGenerate ==
    /\ ~busy
    /\ downloads' = <<>>
    /\ warned' = FALSE
    /\ IF generateGuard # NULL
       THEN /\ error' = generateGuard
            /\ UNCHANGED <<busy, task>>
       ELSE /\ InScope
            /\ error' = NULL
            /\ busy' = TRUE
            /\ task' = [kind |-> "generate", opts |-> options]
    /\ UNCHANGED <<day, localStorage, peerOpsUsed, img, options, variants, copies,
                   opsUsed, reads, unhandled, ups>>

\* img.onload in generateVariants: runGenerate runs to its end
generateOnload ==
    /\ task.kind = "generate"
    /\ variants' = generateVariants(task.opts)
    /\ copies' = buildCopies(task.opts)
    /\ localStorage' = setItem(keyForToday, incOpsUsedValue(1))
    /\ opsUsed' = incOpsUsedValue(1)
    /\ ups' = 0
    /\ busy' = FALSE
    /\ task' = Idle
    /\ UNCHANGED <<day, peerOpsUsed, img, error, options, reads, downloads, warned,
                   unhandled>>

\* incOpsUsed(1) moved into the finally block, so failed runs count too
generateOnerrorCounts ==
    /\ task.kind = "generate"
    /\ error' = ErrLoadImage
    /\ localStorage' = setItem(keyForToday, incOpsUsedValue(1))
    /\ opsUsed' = incOpsUsedValue(1)
    /\ busy' = FALSE
    /\ task' = Idle
    /\ UNCHANGED <<day, peerOpsUsed, img, options, variants, copies, reads,
                   downloads, warned, unhandled, ups>>

\* a catch block that also throws the previous outputs away
generateOnerrorClears ==
    /\ task.kind = "generate"
    /\ error' = ErrLoadImage
    /\ variants' = <<>>
    /\ copies' = <<>>
    /\ busy' = FALSE
    /\ task' = Idle
    /\ UNCHANGED <<day, localStorage, peerOpsUsed, img, options, opsUsed, reads,
                   downloads, warned, unhandled, ups>>

\* img.onerror in generateVariants: catch, then finally
generateOnerror ==
    /\ task.kind = "generate"
    /\ error' = ErrLoadImage
    /\ busy' = FALSE
    /\ task' = Idle
    /\ UNCHANGED <<day, localStorage, peerOpsUsed, img, options, variants, copies,
                   opsUsed, reads, downloads, warned, unhandled, ups>>

\* --------------------------------------------------------------- upscale
\* the decodes that have not answered
pending(res) == {i \in DOMAIN res : res[i] = <<>>}

\* results collected in the order the decodes answer
settleFirstFree(res, i, v) ==
    LET first == CHOOSE j \in pending(res) : \A k \in pending(res) : j <= k
    IN  [res EXCEPT ![first] = <<v>>]

\* slot i of the array Promise.all resolves with
settle(res, i, v) == [res EXCEPT ![i] = <<v>>]

\* doUpscale up to `await Promise.all(...)`: one loadImage per variant
doUpscale ==
    /\ ~busy
    /\ variants # <<>>
    /\ ups < MaxUpscales
    /\ busy' = TRUE
    /\ task' = [kind |-> "upscale", src |-> variants, k |-> ups,
                res |-> [i \in DOMAIN variants |-> <<>>]]
    /\ downloads' = <<>>
    /\ warned' = FALSE
    /\ UNCHANGED <<day, localStorage, peerOpsUsed, img, error, options, variants,
                   copies, opsUsed, reads, unhandled, ups>>

\* img.onload of decode i: upscale2x(variants[i]) resolves; after the last
\* one Promise.all resolves and doUpscale runs to its end
upscaleOnload ==
    /\ task.kind = "upscale"
    /\ \E i \in pending(task.res) :
        LET res == settle(task.res, i, upscale2x(task.src[i]))
        IN  IF pending(res) = {}
            THEN /\ variants' = [j \in DOMAIN res |-> res[j][1]]
                 /\ ups' = task.k + 1
                 /\ busy' = FALSE
                 /\ task' = Idle
            ELSE /\ task' = [task EXCEPT !.res = res]
                 /\ UNCHANGED <<variants, ups, busy>>
    /\ UNCHANGED <<day, localStorage, peerOpsUsed, img, error, options, copies,
                   opsUsed, reads, downloads, warned, unhandled>>

\* img.onerror of decode i: Promise.all rejects at once; catch, then finally.
\* The decodes still running change nothing any more.
upscaleOnerror ==
    /\ task.kind = "upscale"
    /\ \E i \in pending(task.res) :
        /\ error' = ErrLoadImage
        /\ busy' = FALSE
        /\ task' = Idle
    /\ UNCHANGED <<day, localStorage, peerOpsUsed, img, options, variants, copies,
                   opsUsed, reads, downloads, warned, unhandled, ups>>

\* ---------------------------------------------------------------- export
pngName(i) == "productpro_" \o ToString(i + 1) \o ".png"

\* zip.file(`productpro_${i + 1}.png`, b64) for every variant, i from 0
zipFiles(src) == [p \in DOMAIN src |-> [name |-> pngName(p - 1), content |-> <<src[p]>>]]

zipDownload(src) == [name |-> "ProductPro.zip", content |-> zipFiles(src)]

\* the fallback naming the files `productpro_${i}.png`
fallbackDownloadsFromZero(src) ==
    [p \in DOMAIN src |-> [name |-> pngName(p - 2), content |-> <<src[p]>>]]

\* variants.forEach((v, i) => triggerDownload(dataURLtoBlob(v), ...)), i from 0
fallbackDownloads(src) ==
    [p \in DOMAIN src |-> [name |-> pngName(p - 1), content |-> <<src[p]>>]]

\* the inner catch of exportAll, then finally
zipFallback ==
    /\ warned' = TRUE
    /\ downloads' = downloads \o fallbackDownloads(task.src)
    /\ busy' = FALSE
    /\ task' = Idle

\* exportAll up to `await import(...)`
exportAll ==
    /\ ~busy
    /\ variants # <<>>
    /\ busy' = TRUE
    /\ task' = [kind |-> "export", phase |-> "import", src |-> variants]
    /\ downloads' = <<>>
    /\ warned' = FALSE
    /\ UNCHANGED <<day, localStorage, peerOpsUsed, img, error, options, variants,
                   copies, opsUsed, reads, unhandled, ups>>

\* import() settles: the library loads and the files are added, up to
\* `await zip.generateAsync`; or the load rejects; or zip.file throws
exportImported ==
    /\ task.kind = "export"
    /\ task.phase = "import"
    /\ \E r \in {"loaded", "rejected", "fileThrows"} :
        IF r = "loaded"
        THEN /\ task' = [task EXCEPT !.phase = "zip"]
             /\ UNCHANGED <<busy, downloads, warned>>
        ELSE zipFallback
    /\ UNCHANGED <<day, localStorage, peerOpsUsed, img, error, options, variants,
                   copies, opsUsed, reads, unhandled, ups>>

\* generateAsync settles: the blob is downloaded; or it rejects; or
\* triggerDownload throws before the click
exportGenerated ==
    /\ task.kind = "export"
    /\ task.phase = "zip"
    /\ \E r \in {"blob", "rejected", "downloadThrows"} :
        IF r = "blob"
        THEN /\ downloads' = Append(downloads, zipDownload(task.src))
             /\ busy' = FALSE
             /\ task' = Idle
             /\ warned' = warned
        ELSE zipFallback
    /\ UNCHANGED <<day, localStorage, peerOpsUsed, img, error, options, variants,
                   copies, opsUsed, reads, unhandled, ups>>

\* ----------------------------------------------------------------- reset
clearAll ==
    /\ variants' = <<>>
    /\ copies' = <<>>
    /\ ups' = 0
    /\ UNCHANGED <<day, localStorage, peerOpsUsed, img, busy, error, options,
                   opsUsed, task, reads, downloads, warned, unhandled>>

\* ------------------------------------------------------------ environment
\* midnight passes
Tick ==
    /\ day < MaxDay
    /\ day' = day + 1
    /\ UNCHANGED <<localStorage, peerOpsUsed, img, busy, error, options, variants,
                   copies, opsUsed, task, reads, downloads, warned, unhandled, ups>>

\* runGenerate of the second instance, as far as it touches the shared store
peerGenerate ==
    /\ DailyLimit - peerOpsUsed > 0
    /\ InScope
    /\ localStorage' = setItem(keyForToday, incOpsUsedValue(1))
    /\ peerOpsUsed' = incOpsUsedValue(1)
    /\ UNCHANGED <<day, img, busy, error, options, variants, copies, opsUsed, task,
                   reads, downloads, warned, unhandled, ups>>

\* -------------------------------------------------------- specifications
\* A session of the page with the options left as constructed, next to the
\* second instance and the passing of midnight.
Next ==
    \/ onUpload
    \/ frOnload
    \/ frOnerror
    \/ removeImage
    \/ runGenerate
    \/ generateOnload
    \/ generateOnerror
    \/ doUpscale
    \/ upscaleOnload
    \/ upscaleOnerror
    \/ exportAll
    \/ exportImported
    \/ exportGenerated
    \/ clearAll
    \/ Tick
    \/ peerGenerate

Spec == Init /\ [][Next]_vars

\* A session of one instance within one day.
NextPage ==
    \/ onUpload
    \/ frOnload
    \/ frOnerror
    \/ removeImage
    \/ runGenerate
    \/ generateOnload
    \/ generateOnerror
    \/ doUpscale
    \/ upscaleOnload
    \/ upscaleOnerror
    \/ exportAll
    \/ exportImported
    \/ exportGenerated
    \/ clearAll

SpecPage == Init /\ [][NextPage]_vars

\* A session of one instance within one day in which the mode and the
\* watermark are edited as well.
NextSession ==
    \/ NextPage
    \/ SetMode
    \/ SetWatermark

SpecSession == Init /\ [][NextSession]_vars

\* The page after an upload, on a day without a stored count.
InitStudio ==
    /\ day = 1
    /\ localStorage = <<>>
    /\ opsUsed = 0
    /\ peerOpsUsed = 0
    /\ img = dataUrl("photo.png")
    /\ busy = FALSE
    /\ error = NULL
    /\ variants = <<>>
    /\ copies = <<>>
    /\ task = Idle
    /\ reads = {}
    /\ downloads = <<>>
    /\ warned = FALSE
    /\ unhandled = FALSE
    /\ ups = 0

\* Generation and upscaling for every choice of options: the aspect and the
\* quality are chosen before the run, the mode and the watermark at any time.
InitGen == InitStudio /\ options \in GenOptions

NextGen ==
    \/ SetMode
    \/ SetWatermark
    \/ runGenerate
    \/ generateOnload
    \/ doUpscale
    \/ upscaleOnload
    \/ upscaleOnerror
    \/ clearAll

SpecGen == InitGen /\ [][NextGen]_vars

\* Generation while the user edits every option, also during a run.
InitOptions ==
    /\ InitStudio
    /\ options = [mode |-> "photo", ratio |-> "1:1", quality |-> "standard",
                  watermark |-> TRUE]

NextOptions ==
    \/ SetMode
    \/ SetRatio
    \/ SetQuality
    \/ SetWatermark
    \/ runGenerate
    \/ generateOnload

SpecOptions == InitOptions /\ [][NextOptions]_vars

\* ------------------------------------------------------------ properties
\* the steps in which a handler ends, told from the state before and after
GenEnds == task.kind = "generate" /\ task'.kind = "idle"
GenFails == GenEnds /\ error' = ErrLoadImage
GenSucceeds == GenEnds /\ error' # ErrLoadImage
UpscaleEnds == task.kind = "upscale" /\ task'.kind = "idle"
UpscaleFails == UpscaleEnds /\ error' = ErrLoadImage /\ variants' = variants
UpscaleSucceeds == UpscaleEnds /\ ~UpscaleFails
ExportEnds == task.kind = "export" /\ task'.kind = "idle"

\* the table and the multipliers (in tenths) as the specification gives them
TableEntry(r) ==
    CASE r = "1:1" -> <<1024, 1024>>
      [] r = "4:5" -> <<1024, 1280>>
      [] r = "16:9" -> <<1280, 720>>
      [] r = "9:16" -> <<1080, 1920>>
Multiplier10(q) ==
    CASE q = "standard" -> 10
      [] q = "high" -> 13
      [] q = "ultra" -> 16
\* n is an integer nearest to x10 / 10
NearestTo(n, x10) == (10 * n - x10) \in -5..5
Pow2[k \in Nat] == IF k = 0 THEN 1 ELSE 2 * Pow2[k - 1]
Twice(v) == [v EXCEPT !.w = 2 * v.w, !.h = 2 * v.h]

\* C1: a runGenerate invoked while the count recorded for the current day is
\* 30 or more is blocked: no generation starts, so it yields no variants, no
\* copies and no increment.
C1_BlockedAtLimit ==
    [][(task.kind = "idle" /\ getOpsUsed >= DailyLimit) => task'.kind # "generate"]_vars

\* C2: every counter stored under a day key is an integer from 0 to 30.
C2_CounterWithinCap ==
    \A k \in DOMAIN localStorage : localStorage[k] \in 0..DailyLimit

\* C3: an action that ends in an error leaves the prior state intact and is
\* not retried: a rejected non-image file leaves img and issues no read; a
\* failed runGenerate (no image, quota, decode) leaves variants, copies and
\* the stored counter; a failed doUpscale leaves variants; a failed file read
\* leaves img; and each failed handler leaves nothing of its own in flight.
C3_FailureLeavesState ==
    [][ /\ (error # ErrNotImage /\ error' = ErrNotImage)
            => (img' = img /\ reads' = reads)
        /\ (error' \in {ErrNoImage, ErrQuota} /\ error' # error)
            => (variants' = variants /\ copies' = copies
                /\ localStorage' = localStorage /\ task' = Idle /\ ~busy')
        /\ GenFails
            => (variants' = variants /\ copies' = copies
                /\ localStorage' = localStorage /\ ~busy')
        /\ (UpscaleEnds /\ (Cardinality(pending(task.res)) > 1
                            \/ (error # ErrLoadImage /\ error' = ErrLoadImage)))
            => (variants' = variants /\ ~busy')
        /\ (unhandled' /\ ~unhandled) => img' = img
      ]_vars

\* a generation or an upscale failed and the four variants and four copies
\* of the run before are still there
C3_Witness ==
    /\ error = ErrLoadImage
    /\ task = Idle
    /\ Len(variants) = 4
    /\ Len(copies) = 4

\* C4: every failure of a user action is caught by its handler and ends with
\* the error message set; no rejection escapes a handler.
C4_FailuresSurface ==
    [][ /\ ~unhandled'
        /\ (onUpload /\ reads' = reads) => error' # NULL
        /\ (runGenerate /\ (img = NULL \/ remaining <= 0)) => error' # NULL
        /\ (GenEnds /\ localStorage' = localStorage) => error' # NULL
        /\ (UpscaleEnds /\ Cardinality(pending(task.res)) > 1) => error' # NULL
      ]_vars

\* C5: the four canvases of a run all have the table entry of the run's
\* aspect ratio times the run's quality multiplier, rounded to the nearest
\* integer, as width and height.
C5_CanvasDimensions ==
    [][GenSucceeds =>
        /\ Len(variants') = 4
        /\ \A i \in 1..4 :
            /\ NearestTo(variants'[i].w,
                         TableEntry(task.opts.ratio)[1] * Multiplier10(task.opts.quality))
            /\ NearestTo(variants'[i].h,
                         TableEntry(task.opts.ratio)[2] * Multiplier10(task.opts.quality))
            /\ variants'[i].w = variants'[1].w
            /\ variants'[i].h = variants'[1].h
      ]_vars

\* a 9:16 run at ultra quality has produced its canvases
C5_Witness ==
    /\ Len(variants) = 4
    /\ variants[1].w = 1728
    /\ variants[1].h = 3072

\* C6: a successful run yields exactly four variants, drawn with clean,
\* moody, pop, matte in this order in photo mode and in the reverse order in
\* poster mode.
C6_PresetOrder ==
    [][GenSucceeds =>
        /\ Len(variants') = 4
        /\ [i \in 1..4 |-> variants'[i].filter] =
             IF task.opts.mode = "photo"
             THEN <<"clean", "moody", "pop", "matte">>
             ELSE <<"matte", "pop", "moody", "clean">>
      ]_vars

\* a poster run has produced its variants
C6_Witness ==
    /\ Len(variants) = 4
    /\ variants[1].poster
    /\ variants[1].filter = "matte"

\* C7 as claimed: whenever variants are present, each carries the watermark
\* if and only if the watermark option is true.
C7_WatermarkFollowsOption ==
    \A i \in DOMAIN variants : variants[i].watermark = options.watermark

\* C7 as amended: each variant carries the watermark if and only if the
\* watermark option was true when its run was invoked; upscales keep it and
\* no other step changes it.
C7_WatermarkAsGenerated ==
    [][ /\ GenSucceeds
            => \A i \in DOMAIN variants' :
                   variants'[i].watermark = task.opts.watermark
        /\ UpscaleSucceeds
            => \A i \in DOMAIN variants' :
                   variants'[i].watermark = task.src[i].watermark
        /\ (~GenSucceeds /\ ~UpscaleSucceeds /\ variants' # <<>>)
            => variants' = variants
      ]_vars

\* variants generated with the watermark on, and the option switched off since
C7_Witness ==
    /\ Len(variants) = 4
    /\ variants[1].watermark
    /\ ~options.watermark

\* C8: a successful doUpscale doubles the width and the height of every
\* variant and keeps their number; after k upscales each variant measures
\* 2^k times the generated dimensions.
C8_UpscaleDoubles ==
    /\ [](/\ Len(variants) \in {0, 4}
          /\ \A i \in DOMAIN variants :
              /\ variants[i].w % Pow2[ups] = 0
              /\ variants[i].h % Pow2[ups] = 0
              /\ NearestTo(variants[i].w \div Pow2[ups],
                           TableEntry(options.ratio)[1] * Multiplier10(options.quality))
              /\ NearestTo(variants[i].h \div Pow2[ups],
                           TableEntry(options.ratio)[2] * Multiplier10(options.quality)))
    /\ [][UpscaleSucceeds =>
            /\ Len(variants') = Len(task.src)
            /\ \A i \in DOMAIN variants' :
                /\ variants'[i].w = 2 * task.src[i].w
                /\ variants'[i].h = 2 * task.src[i].h
         ]_vars

\* the variants have been upscaled twice
C8_Witness ==
    /\ Len(variants) = 4
    /\ ups = 2

C10_DecodesIndependent ==
    [][ /\ (task.kind = "upscale" /\ task'.kind = "upscale" /\ task' # task)
            => /\ task'.src = task.src
               /\ \E i \in pending(task.res) :
                    /\ task'.res[i] = <<Twice(task.src[i])>>
                    /\ \A j \in DOMAIN task.res \ {i} : task'.res[j] = task.res[j]
               /\ variants' = variants
        /\ UpscaleSucceeds
            => variants' = [i \in DOMAIN task.src |-> Twice(task.src[i])]
      ]_vars

\* the decodes answer out of order: the last variant's decode before the first
C10_Witness ==
    /\ task.kind = "upscale"
    /\ task.res[4] # <<>>
    /\ task.res[1] = <<>>

\* C11: the counter stored for the current day grows by exactly 1 in each
\* successful runGenerate, after which opsUsed equals the stored value, and
\* no other step of the page (upload, image removal, option edit, upscale,
\* export, reset, failed runGenerate) changes the store.
C11_CounterFrame ==
    [][ IF GenSucceeds
        THEN /\ getOpsUsed' = getOpsUsed + 1
             /\ opsUsed' = getOpsUsed'
             /\ \A k \in DOMAIN localStorage \ {keyForToday} :
                    localStorage'[k] = localStorage[k]
        ELSE localStorage' = localStorage
      ]_vars

\* one generation succeeded and was counted once; the upscale after it and
\* the option edit left the count alone
C11_Witness ==
    /\ Len(variants) = 4
    /\ ups = 1
    /\ options.mode = "poster"
    /\ getOpsUsed = 1
    /\ opsUsed = 1

\* C12: outside a running runGenerate the variants and the copies are both
\* empty or both of length 4.
C12_VariantsCopiesPaired ==
    task.kind # "generate"
        => \/ (Len(variants) = 0 /\ Len(copies) = 0)
           \/ (Len(variants) = 4 /\ Len(copies) = 4)
====
